---- MODULE Spec2Model ----
(***************************************************************************)
(* simple_keystore: SimpleKeyStore, an encrypted key store on one SQLite   *)
(* table.  The model keeps the committed contents of the database file     *)
(* (disk), the contents seen through the store's connection (table, which  *)
(* includes the changes of an open transaction), and the last call made    *)
(* on the store with its arguments and its outcome.  added_ids is the      *)
(* history of the ids add_key has returned.                                *)
(***************************************************************************)
EXTENDS Integers, Sequences, FiniteSets, TLC

VARIABLES disk, table, cx_open, today, op, args, ret, added_ids

vars == <<disk, table, cx_open, today, op, args, ret, added_ids>>

store == <<disk, table>>

(***************************************************************************)
(* Bounds of the model.                                                    *)
(***************************************************************************)
\* largest rowid the model lets add_key assign
MaxId == 2
\* number of distinct random IVs the cipher can draw
MaxNonce == 2
\* the time datetime.today() reads during the calls
StartTime == 5

(***************************************************************************)
(* Python / SQLite values.  Every value carries its type, so that a text   *)
(* is never equal to a number, to None/NULL or to a Fernet token.          *)
(***************************************************************************)
Null == [k |-> "null", s |-> "", n |-> 0]
Text(x) == [k |-> "text", s |-> x, n |-> 0]
Num(i) == [k |-> "int", s |-> "", n |-> i]
Bool(b) == [k |-> "bool", s |-> "", n |-> IF b THEN 1 ELSE 0]
\* a Fernet token made from plaintext pt with random IV iv
Token(pt, iv) == [k |-> "token", s |-> pt, n |-> iv]

\* Python truthiness of a value ("if not x")
Truthy(v) ==
    CASE v.k = "null" -> FALSE
      [] v.k = "text" -> v.s # ""
      [] v.k = "int" -> v.n # 0
      [] v.k = "bool" -> v.n # 0
      [] OTHER -> TRUE

Nonces == 1..MaxNonce

(***************************************************************************)
(* Cipher                                                                  *)
(***************************************************************************)
encrypt_key_plain(unencrypted_key, iv) == unencrypted_key

encrypt_key(unencrypted_key, iv) ==
    IF ~Truthy(unencrypted_key) THEN Null ELSE Token(unencrypted_key.s, iv)

decrypt_key(encrypted_key) ==
    IF ~Truthy(encrypted_key) THEN Null ELSE Text(encrypted_key.s)

(***************************************************************************)
(* Schema                                                                  *)
(***************************************************************************)
keystore_columns ==
    <<"id", "name", "expiration_in_sse", "active", "batch", "source", "login", "encrypted_key">>

\* the value of a column of a stored row, as a typed value
Col(r, c) ==
    CASE c = "id" -> Num(r.id)
      [] c = "active" -> Num(r.active)
      [] OTHER -> r[c]

RECURSIVE fetchall(_)
\* rows of a SELECT in rowid order
fetchall(rows) ==
    IF rows = {} THEN <<>>
    ELSE LET r == CHOOSE x \in rows : \A y \in rows : x.id <= y.id
         IN <<r>> \o fetchall(rows \ {r})

\* the rowid SQLite gives the next inserted row of an INTEGER PRIMARY KEY table
NextRowid(rows) ==
    IF rows = {} THEN 1
    ELSE (CHOOSE m \in {r.id : r \in rows} : \A r \in rows : r.id <= m) + 1

(***************************************************************************)
(* Record dicts                                                            *)
(***************************************************************************)
_get_dict_from_record_tuple_le(record, now) ==
    LET expiration_date ==
            IF Truthy(record.expiration_in_sse) THEN Num(record.expiration_in_sse.n) ELSE Null
        active == record.active # 0
        expired == IF expiration_date = Null THEN FALSE ELSE expiration_date.n <= now
    IN [id |-> record.id,
        name |-> record.name,
        expiration_in_sse |-> record.expiration_in_sse,
        active |-> active,
        batch |-> record.batch,
        source |-> record.source,
        login |-> record.login,
        encrypted_key |-> record.encrypted_key,
        expiration_date |-> expiration_date,
        expired |-> expired,
        usable |-> active /\ ~expired,
        key |-> decrypt_key(record.encrypted_key)]

\* _get_dict_from_record_tuple with include_unencrypted_key=True, at time now
_get_dict_from_record_tuple(record, now) ==
    LET expiration_date ==
            IF Truthy(record.expiration_in_sse) THEN Num(record.expiration_in_sse.n) ELSE Null
        active == record.active # 0
        expired == IF expiration_date = Null THEN FALSE ELSE expiration_date.n < now
    IN [id |-> record.id,
        name |-> record.name,
        expiration_in_sse |-> record.expiration_in_sse,
        active |-> active,
        batch |-> record.batch,
        source |-> record.source,
        login |-> record.login,
        encrypted_key |-> record.encrypted_key,
        expiration_date |-> expiration_date,
        expired |-> expired,
        usable |-> active /\ ~expired,
        key |-> decrypt_key(record.encrypted_key)]

_record_dicts_from_select_star_results(records, now) ==
    [i \in 1..Len(records) |-> _get_dict_from_record_tuple(records[i], now)]

(***************************************************************************)
(* Query builder                                                           *)
(***************************************************************************)
NoFilters ==
    [name |-> Null, active |-> Null, expiration_in_sse |-> Null,
     batch |-> Null, source |-> Null, login |-> Null]

Only(field, value) == [NoFilters EXCEPT ![field] = value]

RECURSIVE ParamConditions(_, _)
\* the "field = ?" conditions, one per non-None keyword that is a column other
\* than active, in the order of keystore_columns, each with its bound value
ParamConditions(kwargs, i) ==
    IF i > Len(keystore_columns) THEN <<>>
    ELSE LET field == keystore_columns[i]
         IN IF field # "active" /\ field \in DOMAIN kwargs /\ kwargs[field] # Null
            THEN <<[field |-> field, param |-> TRUE, value |-> kwargs[field]]>>
                     \o ParamConditions(kwargs, i + 1)
            ELSE ParamConditions(kwargs, i + 1)

ActiveCondition_truthy(kwargs) ==
    IF "active" \in DOMAIN kwargs /\ Truthy(kwargs.active)
    THEN <<[field |-> "active", param |-> FALSE, value |-> Num(1)]>>
    ELSE <<>>

\* the literal condition "active = 1" / "active = 0"
ActiveCondition(kwargs) ==
    IF "active" \in DOMAIN kwargs /\ kwargs.active # Null
    THEN <<[field |-> "active", param |-> FALSE,
            value |-> IF Truthy(kwargs.active) THEN Num(1) ELSE Num(0)]>>
    ELSE <<>>

RECURSIVE ColumnConditions(_, _)
ColumnConditions(kwargs, i) ==
    IF i > Len(keystore_columns) THEN <<>>
    ELSE LET field == keystore_columns[i]
         IN (IF field \notin DOMAIN kwargs \/ kwargs[field] = Null THEN <<>>
             ELSE IF field = "active" THEN ActiveCondition(kwargs)
             ELSE <<[field |-> field, param |-> TRUE, value |-> kwargs[field]]>>)
                \o ColumnConditions(kwargs, i + 1)

Conditions_in_column_order(kwargs) == ColumnConditions(kwargs, 1)

\* the conditions list of run_query_with_where_clause
Conditions(kwargs) == ParamConditions(kwargs, 1) \o ActiveCondition(kwargs)

\* the text of each condition: "field = ?", or the literal "active = 1" / "active = 0"
condition_texts(kwargs) ==
    LET conditions == Conditions(kwargs)
    IN [i \in 1..Len(conditions) |->
           IF conditions[i].param THEN conditions[i].field \o " = ?"
           ELSE IF conditions[i].value = Num(1) THEN "active = 1" ELSE "active = 0"]

\* the values list: the bound value of each "?" in the order they were appended
values(kwargs) ==
    LET conditions == SelectSeq(Conditions(kwargs), LAMBDA c : c.param)
    IN [i \in 1..Len(conditions) |-> conditions[i].value]

RECURSIVE join(_, _)
join(texts, sep) ==
    IF Len(texts) = 0 THEN ""
    ELSE IF Len(texts) = 1 THEN texts[1]
    ELSE texts[1] \o sep \o join(Tail(texts), sep)

where_clause(kwargs) ==
    IF Len(condition_texts(kwargs)) > 0
    THEN " WHERE " \o join(condition_texts(kwargs), " AND ")
    ELSE ""

Where_any(r, conditions) ==
    \E i \in 1..Len(conditions) :
        /\ Col(r, conditions[i].field) # Null
        /\ Col(r, conditions[i].field) = conditions[i].value

\* SQL: row r satisfies "c1 AND c2 AND ..."; a NULL column satisfies no equality
Where(r, conditions) ==
    \A i \in 1..Len(conditions) :
        /\ Col(r, conditions[i].field) # Null
        /\ Col(r, conditions[i].field) = conditions[i].value

run_query_with_where_clause_filtered_only(rows, kwargs) ==
    LET conditions == Conditions(kwargs)
    IN IF Len(conditions) > 0 THEN {r \in rows : Where(r, conditions)} ELSE {}

\* the rows the query of run_query_with_where_clause selects (or deletes)
run_query_with_where_clause(rows, kwargs) ==
    LET conditions == Conditions(kwargs)
    IN IF Len(conditions) > 0 THEN {r \in rows : Where(r, conditions)} ELSE rows

get_matching_key_records_of(rows, kwargs, now) ==
    _record_dicts_from_select_star_results(
        fetchall(run_query_with_where_clause(rows, kwargs)), now)

\* the scan of get_key_record: the first record whose key equals the plaintext
get_key_record_of(rows, unencrypted_key, now) ==
    LET records == _record_dicts_from_select_star_results(fetchall(rows), now)
        hits == {i \in 1..Len(records) : records[i].key = unencrypted_key}
    IN IF hits = {} THEN Null
       ELSE records[CHOOSE i \in hits : \A j \in hits : i <= j]

get_key_record_by_id_of(rows, id, now) ==
    LET records == _record_dicts_from_select_star_results(
                       fetchall({r \in rows : r.id = id}), now)
    IN IF Len(records) = 0 THEN Null ELSE records[1]

(***************************************************************************)
(* Outcome of a call                                                       *)
(***************************************************************************)
Return(v) == [exc |-> "", val |-> v]
Raise(e) == [exc |-> e, val |-> Null]

(***************************************************************************)
(* Sorting (list.sort on tuples of field values) and the usability reports *)
(***************************************************************************)
\* the texts of the argument domains, in the order of Python's str "<"
Strings == <<"", "None", "bob", "db", "k1", "k2", "one", "svc", "web">>

Rank(x) == CHOOSE i \in 1..Len(Strings) : Strings[i] = x

\* x.get(field) of a record dict, as a typed value
Get(x, field) ==
    CASE field = "id" -> Num(x.id)
      [] field \in {"active", "expired", "usable"} -> Bool(x[field])
      [] field \in DOMAIN x -> x[field]
      [] OTHER -> Null

\* Python's "<" is defined between two values of one type other than None
Comparable(a, b) == a.k = b.k /\ a.k # "null"

Less(a, b) ==
    CASE a.k \in {"text", "token"} ->
             \/ Rank(a.s) < Rank(b.s)
             \/ a.s = b.s /\ a.n < b.n
      [] OTHER -> a.n < b.n

\* tuples are compared at the first position where they differ
FirstDiff(ka, kb) ==
    LET D == {i \in 1..Len(ka) : ka[i] # kb[i]}
    IN IF D = {} THEN 0 ELSE CHOOSE i \in D : \A j \in D : i <= j

TupleLess(ka, kb) ==
    LET i == FirstDiff(ka, kb) IN i # 0 /\ Less(ka[i], kb[i])

TupleTypeError(ka, kb) ==
    LET i == FirstDiff(ka, kb) IN i # 0 /\ ~Comparable(ka[i], kb[i])

sort_key(x, sort_order) == [j \in 1..Len(sort_order) |-> Get(x, sort_order[j])]

\* a comparison sort has to compare two keys that "<" cannot order, and raises
sort_raises(records, sort_order) ==
    \E i, j \in 1..Len(records) :
        TupleTypeError(sort_key(records[i], sort_order), sort_key(records[j], sort_order))

\* the list after a stable ascending sort by sort_key
sorted(records, sort_order) ==
    LET n == Len(records)
        key(i) == sort_key(records[i], sort_order)
        pos(i) == 1 + Cardinality({j \in 1..n :
                          \/ TupleLess(key(j), key(i))
                          \/ ~TupleLess(key(i), key(j)) /\ j < i})
    IN [q \in 1..n |-> records[CHOOSE i \in 1..n : pos(i) = q]]

\* get_matching_key_records with a sort_order: the outcome of the call
get_matching_key_records_sorted_of(rows, kwargs, sort_order, now) ==
    LET matching_records == get_matching_key_records_of(rows, kwargs, now)
    IN IF Len(sort_order) = 0 THEN Return(matching_records)
       ELSE IF sort_raises(matching_records, sort_order) THEN Raise("TypeError")
       ELSE Return(sorted(matching_records, sort_order))

default_sort_order == <<"name", "source", "login", "batch", "active", "expiration_date">>

records_for_usability_report_of(rows, key_name, sort_order, now) ==
    get_matching_key_records_sorted_of(rows, Only("name", key_name), sort_order, now)

\* str(value) of a text or None
str(v) == IF v = Null THEN "None" ELSE v.s

qual_fields == <<"name", "source", "login", "batch">>

\* the qualified name of a record: the str() of its qual_fields (joined by the
\* delimiter and split again, which gives the parts back when none holds the delimiter)
qualified_name(record) == [i \in 1..Len(qual_fields) |-> str(record[qual_fields[i]])]

usable_counts(usability_records, qn) ==
    Cardinality({i \in 1..Len(usability_records) :
                    /\ qualified_name(usability_records[i]) = qn
                    /\ usability_records[i].usable})

unusable_counts(usability_records, qn) ==
    Cardinality({i \in 1..Len(usability_records) :
                    /\ qualified_name(usability_records[i]) = qn
                    /\ ~usability_records[i].usable})

\* records_for_count_display: one count record per qualified name, in the order the
\* names first appear in usability_records
records_for_count_display(usability_records) ==
    LET n == Len(usability_records)
        qn(i) == qualified_name(usability_records[i])
        firsts == {i \in 1..n : \A j \in 1..(i - 1) : qn(j) # qn(i)}
        nth(q) == CHOOSE i \in firsts : Cardinality({j \in firsts : j <= i}) = q
    IN [q \in 1..Cardinality(firsts) |->
           [name |-> qn(nth(q))[1], source |-> qn(nth(q))[2],
            login |-> qn(nth(q))[3], batch |-> qn(nth(q))[4],
            usable |-> usable_counts(usability_records, qn(nth(q))),
            unusable |-> unusable_counts(usability_records, qn(nth(q)))]]

usability_counts_report_of(rows, key_name, now) ==
    LET usability_records ==
            records_for_usability_report_of(rows, key_name, default_sort_order, now)
    IN IF usability_records.exc # "" THEN usability_records
       ELSE Return(records_for_count_display(usability_records.val))

Init ==
    /\ disk = {}
    /\ table = {}
    /\ cx_open = TRUE
    /\ today = StartTime
    /\ op = "__init__"
    /\ args = <<>>
    /\ ret = Return(Null)
    /\ added_ids = {}

(***************************************************************************)
(* Operations of SimpleKeyStore.  Each is enabled on an open connection.   *)
(* A statement that changes rows opens a transaction implicitly (sqlite3's *)
(* default isolation level): its changes are in table only, and commit()   *)
(* copies table to disk.                                                   *)
(***************************************************************************)
Called(name, a, r) ==
    /\ op' = name
    /\ args' = a
    /\ ret' = r

add_key(name, unencrypted_key, active, expiration_in_sse, batch, source, login, iv) ==
    /\ cx_open
    /\ NextRowid(table) <= MaxId
    /\ LET active_value == IF active THEN 1 ELSE 0
           encrypted_key == encrypt_key(unencrypted_key, iv)
           id == NextRowid(table)
           row == [id |-> id, name |-> name, expiration_in_sse |-> expiration_in_sse,
                   active |-> active_value, batch |-> batch, source |-> source,
                   login |-> login, encrypted_key |-> encrypted_key]
           a == [name |-> name, unencrypted_key |-> unencrypted_key,
                 active |-> Bool(active), expiration_in_sse |-> expiration_in_sse,
                 batch |-> batch, source |-> source, login |-> login]
           \* name TEXT NOT NULL, encrypted_key TEXT UNIQUE (NULLs are distinct)
           violates == \/ name = Null
                       \/ /\ encrypted_key # Null
                          /\ \E r \in table : r.encrypted_key = encrypted_key
       IN IF violates
          THEN \* create_keystore_table_if_dne committed; the INSERT failed
               /\ disk' = table
               /\ table' = table
               /\ Called("add_key", a, Raise("IntegrityError"))
               /\ added_ids' = added_ids
          ELSE /\ table' = table \cup {row}
               /\ disk' = table \cup {row}
               /\ Called("add_key", a, Return(id))
               /\ added_ids' = added_ids \cup {id}
    /\ UNCHANGED <<cx_open, today>>

get_key_by_name_result_many(records) ==
    IF Len(records) > 1 THEN Raise("ValueError")
    ELSE IF Len(records) = 0 THEN Return(Null) ELSE Return(records[1].key)

get_key_by_name_result(records) ==
    IF Len(records) # 1 THEN Raise("ValueError") ELSE Return(records[1].key)

get_key_by_name_of(rows, name, now) ==
    get_key_by_name_result(
        get_matching_key_records_of(rows, [NoFilters EXCEPT !.name = name], now))

get_key_by_name(name) ==
    /\ cx_open
    /\ Called("get_key_by_name", [name |-> name], get_key_by_name_of(table, name, today))
    /\ UNCHANGED <<disk, table, cx_open, today, added_ids>>

get_key_record_by_id(id) ==
    /\ cx_open
    /\ Called("get_key_record_by_id", [id |-> id],
              Return(get_key_record_by_id_of(table, id, today)))
    /\ UNCHANGED <<disk, table, cx_open, today, added_ids>>

get_key_record(unencrypted_key) ==
    /\ cx_open
    /\ Called("get_key_record", [unencrypted_key |-> unencrypted_key],
              Return(get_key_record_of(table, unencrypted_key, today)))
    /\ UNCHANGED <<disk, table, cx_open, today, added_ids>>

get_matching_key_records(kwargs) ==
    /\ cx_open
    /\ Called("get_matching_key_records", kwargs,
              Return(get_matching_key_records_of(table, kwargs, today)))
    /\ UNCHANGED <<disk, table, cx_open, today, added_ids>>

number_of_records ==
    /\ cx_open
    /\ Called("number_of_records", <<>>, Return(Cardinality(table)))
    /\ UNCHANGED <<disk, table, cx_open, today, added_ids>>

records_for_usability_report(key_name) ==
    /\ cx_open
    /\ Called("records_for_usability_report", [key_name |-> key_name],
              records_for_usability_report_of(table, key_name, default_sort_order, today))
    /\ UNCHANGED <<disk, table, cx_open, today, added_ids>>

usability_counts_report(key_name) ==
    /\ cx_open
    /\ Called("usability_counts_report", [key_name |-> key_name],
              usability_counts_report_of(table, key_name, today))
    /\ UNCHANGED <<disk, table, cx_open, today, added_ids>>

\* the rows "DELETE ... WHERE encrypted_key=?" removes
delete_key_record_rows(rows, encrypted_key) ==
    {r \in rows : r.encrypted_key # Null /\ r.encrypted_key = encrypted_key}

delete_key_record(unencrypted_key, iv) ==
    /\ cx_open
    /\ LET encrypted_key == encrypt_key(unencrypted_key, iv)
           deleted == delete_key_record_rows(table, encrypted_key)
       IN /\ table' = table \ deleted
          /\ Called("delete_key_record", [unencrypted_key |-> unencrypted_key],
                    Return(Cardinality(deleted)))
    /\ UNCHANGED <<disk, cx_open, today, added_ids>>

delete_records_with_name(name) ==
    /\ cx_open
    /\ LET deleted == {r \in table : r.name # Null /\ r.name = name}
       IN /\ table' = table \ deleted
          /\ Called("delete_records_with_name", [name |-> name], Return(Cardinality(deleted)))
    /\ UNCHANGED <<disk, cx_open, today, added_ids>>

delete_matching_key_records(kwargs) ==
    /\ cx_open
    /\ LET deleted == run_query_with_where_clause(table, kwargs)
       IN /\ table' = table \ deleted
          /\ Called("delete_matching_key_records", kwargs, Return(Cardinality(deleted)))
    /\ UNCHANGED <<disk, cx_open, today, added_ids>>

\* run_query_with_where_clause(query, **kwargs) called on the store: builds the
\* statement, executes it, and gives the cursor
run_query(query, kwargs) ==
    /\ cx_open
    /\ LET rows == run_query_with_where_clause(table, kwargs)
       IN /\ table' = IF query = "DELETE FROM keystore" THEN table \ rows ELSE table
          /\ Called("run_query_with_where_clause", [query |-> query, kwargs |-> kwargs],
                    Return([statement |-> query \o where_clause(kwargs),
                            conditions |-> condition_texts(kwargs),
                            values |-> values(kwargs),
                            rows |-> {r.id : r \in rows}]))
    /\ UNCHANGED <<disk, cx_open, today, added_ids>>

\* the fields update_key puts in its SET clause
set_clause(kwargs) == {f \in DOMAIN kwargs : kwargs[f] # Null}

Updated_all(r, kwargs) ==
    [c \in DOMAIN r |->
        IF c \in DOMAIN kwargs
        THEN IF c = "active" THEN kwargs[c].n ELSE kwargs[c]
        ELSE r[c]]

\* the row after "UPDATE ... SET f = :f, ..." (a bool is stored as 1 or 0)
Updated(r, kwargs) ==
    [c \in DOMAIN r |->
        IF c \in set_clause(kwargs)
        THEN IF c = "active" THEN kwargs[c].n ELSE kwargs[c]
        ELSE r[c]]

update_key_outcome_any(rowcount) == Return(Null)

update_key_outcome(rowcount) ==
    IF rowcount # 1 THEN Raise("RuntimeError") ELSE Return(Null)

update_key_of_every(rows, id_to_update, kwargs) ==
    IF set_clause(kwargs) = {}
    THEN <<rows, Return(Null)>>
    ELSE <<{Updated(r, kwargs) : r \in rows}, update_key_outcome(Cardinality(rows))>>

\* update_key as a step from the connection's rows: <<rows after, outcome>>
update_key_of(rows, id_to_update, kwargs) ==
    IF set_clause(kwargs) = {}
    THEN <<rows, Return(Null)>>
    ELSE LET hit == {r \in rows : r.id = id_to_update}
         IN <<(rows \ hit) \cup {Updated(r, kwargs) : r \in hit},
              update_key_outcome(Cardinality(hit))>>

update_key(id_to_update, kwargs) ==
    /\ cx_open
    /\ LET u == update_key_of(table, id_to_update, kwargs)
       IN /\ table' = u[1]
          /\ Called("update_key", [id_to_update |-> id_to_update, fields |-> kwargs], u[2])
    /\ UNCHANGED <<disk, cx_open, today, added_ids>>

mark_key_inactive(unencrypted_key) ==
    /\ cx_open
    /\ LET record == get_key_record_of(table, unencrypted_key, today)
           a == [unencrypted_key |-> unencrypted_key]
       IN IF record = Null
          THEN \* record["id"] on None
               /\ Called("mark_key_inactive", a, Raise("TypeError"))
               /\ UNCHANGED table
          ELSE LET u == update_key_of(table, record.id,
                                      [NoFilters EXCEPT !.active = Bool(FALSE)])
               IN /\ table' = u[1]
                  /\ Called("mark_key_inactive", a, u[2])
    /\ UNCHANGED <<disk, cx_open, today, added_ids>>

\* closing the connection discards the changes of an open transaction
close_connection ==
    /\ cx_open
    /\ cx_open' = FALSE
    /\ table' = disk
    /\ Called("close_connection", <<>>, Return(Null))
    /\ UNCHANGED <<disk, today, added_ids>>

\* a new SimpleKeyStore on the same database file
Init__ ==
    /\ ~cx_open
    /\ cx_open' = TRUE
    /\ table' = disk
    /\ Called("__init__", <<>>, Return(Null))
    /\ UNCHANGED <<disk, today, added_ids>>

(***************************************************************************)
(* Arguments the callers pass.  A specification draws the arguments of     *)
(* each call from the sets of one argument domain.                         *)
(***************************************************************************)
Ids == 1..(MaxId + 1)

\* at most this many keyword filters are given in one checked call
MaxFields == 2

AllKwargs ==
    [name : {Null, Text(""), Text("svc")}, active : {Null, Bool(TRUE), Bool(FALSE)},
     expiration_in_sse : {Null, Num(0), Num(3)}, batch : {Null, Text("one")},
     source : {Null, Text("web")}, login : {Null, Text("bob")}]

\* the optional arguments of add_key left at their defaults
Defaults ==
    [expiration_in_sse |-> Num(0), batch |-> Null, source |-> Null, login |-> Null]

\* every optional argument of add_key (or field of update_key) given
AllGiven ==
    [expiration_in_sse |-> Num(3), batch |-> Text("one"), source |-> Text("web"),
     login |-> Text("bob")]

\* calls that tell records apart by name and by secret
KeyArgs ==
    [names |-> {Null, Text(""), Text("svc")},
     secrets |-> {Null, Text(""), Text("svc")},
     actives |-> {TRUE},
     optionals |-> {Defaults},
     plaintexts |-> {Text(""), Text("svc"), Text("k2")},
     key_names |-> {Null},
     filters |-> {NoFilters, Only("name", Text("svc")), Only("active", Bool(FALSE))},
     updates |-> {NoFilters, Only("name", Text("svc")), Only("active", Bool(FALSE))}]

NextOver(D) ==
    \/ \E name \in D.names, unencrypted_key \in D.secrets, active \in D.actives,
          o \in D.optionals, iv \in Nonces :
         add_key(name, unencrypted_key, active,
                 o.expiration_in_sse, o.batch, o.source, o.login, iv)
    \/ \E name \in D.names \ {Null} : get_key_by_name(name)
    \/ \E id \in Ids : get_key_record_by_id(id)
    \/ \E p \in D.plaintexts : get_key_record(p)
    \/ \E kw \in D.filters : get_matching_key_records(kw)
    \/ number_of_records
    \/ \E key_name \in D.key_names : records_for_usability_report(key_name)
    \/ \E key_name \in D.key_names : usability_counts_report(key_name)
    \/ \E p \in D.plaintexts, iv \in Nonces : delete_key_record(p, iv)
    \/ \E name \in D.names \ {Null} : delete_records_with_name(name)
    \/ \E kw \in D.filters : delete_matching_key_records(kw)
    \/ \E id \in Ids, kw \in D.updates : update_key(id, kw)
    \/ \E p \in D.plaintexts : mark_key_inactive(p)
    \/ close_connection
    \/ Init__

Next == NextOver(KeyArgs)

Spec == Init /\ [][Next]_vars

\* calls that tell records apart by name, by active and by the optional fields, which
\* a call gives all or leaves all out
FieldArgs ==
    [names |-> {Text("db"), Text("svc")},
     secrets |-> {Text("k1")},
     actives |-> {TRUE, FALSE},
     optionals |-> {Defaults, AllGiven},
     plaintexts |-> {Text("k1")},
     key_names |-> {Null, Text("svc")},
     filters |-> {NoFilters, Only("active", Bool(FALSE)),
                  Only("expiration_in_sse", AllGiven.expiration_in_sse),
                  Only("source", AllGiven.source), Only("login", AllGiven.login),
                  [NoFilters EXCEPT !.name = Text("svc"), !.batch = Text("one")],
                  [NoFilters EXCEPT !.name = Text("svc"), !.active = Bool(FALSE)]},
     updates |-> {NoFilters, Only("active", Bool(FALSE)),
                  [name |-> Null, active |-> Null,
                   expiration_in_sse |-> AllGiven.expiration_in_sse,
                   batch |-> AllGiven.batch, source |-> AllGiven.source,
                   login |-> AllGiven.login]}]

NextFields == NextOver(FieldArgs)

SpecFields == Init /\ [][NextFields]_vars

\* the last time the clock of a specification with a clock reaches
LastTime == StartTime + 2

\* time passes between two calls: datetime.today() reads a later time
Tick ==
    /\ today < LastTime
    /\ today' = today + 1
    /\ Called("today", <<>>, Return(Null))
    /\ UNCHANGED <<disk, table, cx_open, added_ids>>

\* add_key(expiration_in_sse=None): no expiration stored
NoExpiration == [Defaults EXCEPT !.expiration_in_sse = Null]

\* an expiration the clock starts before, reaches and passes
Expiring == [Defaults EXCEPT !.expiration_in_sse = Num(StartTime + 1)]

\* calls that tell records apart by active and by expiration, while time passes
ClockArgs ==
    [names |-> {Text("svc")},
     secrets |-> {Text("k1")},
     actives |-> {TRUE, FALSE},
     optionals |-> {NoExpiration, Defaults, Expiring},
     plaintexts |-> {Text("k1")},
     key_names |-> {Null},
     filters |-> {NoFilters, Only("active", Bool(TRUE))},
     updates |-> {Only("expiration_in_sse", Expiring.expiration_in_sse)}]

NextClock == NextOver(ClockArgs) \/ Tick

SpecClock == Init /\ [][NextClock]_vars

\* keyword arguments of run_query_with_where_clause: columns given or None, columns
\* left out, and a keyword that is no column
QueryKwargs ==
    [id : {Null, Num(1)}, name : {Null, Text("svc")},
     active : {Null, Bool(TRUE), Bool(FALSE)}, batch : {Null, Text("one")},
     owner : {Null, Text("bob")}]

Queries == {"SELECT * FROM keystore", "DELETE FROM keystore"}

NextQuery ==
    \/ \E active \in BOOLEAN, iv \in Nonces :
         add_key(Text("svc"), Text("k1"), active, AllGiven.expiration_in_sse,
                 AllGiven.batch, AllGiven.source, AllGiven.login, iv)
    \/ \E query \in Queries, kwargs \in QueryKwargs : run_query(query, kwargs)

SpecQuery == Init /\ [][NextQuery]_vars

(***************************************************************************)
(* Properties                                                              *)
(***************************************************************************)
RowIds(rows) == {r.id : r \in rows}
RowWithId(rows, id) == CHOOSE r \in rows : r.id = id
Succeeded(name) == op = name /\ ret.exc = ""
WriteOps ==
    {"add_key", "delete_records_with_name", "delete_matching_key_records",
     "delete_key_record", "update_key", "mark_key_inactive"}
FilterFields == {"name", "active", "expiration_in_sse", "batch", "source", "login"}

\* the stored rows whose decrypted key is the plaintext p
RowsWithKey(rows, p) == {r \in rows : decrypt_key(r.encrypted_key) = p}

\* record value of row r equals the filter value v of field f
FieldEquals(r, f, v) ==
    IF f = "active" THEN (r.active # 0) = Truthy(v) ELSE r[f] = v

\* row r satisfies every non-null filter of kw
Satisfies(r, kw) == \A f \in FilterFields : kw[f] # Null => FieldEquals(r, f, kw[f])

\* C1: delete_key_record(p) removes a stored record whose decrypted key is p and
\* returns 1 when there is one, and removes nothing and returns 0 when there is none.
C1_DeleteByPlaintextKey ==
    [][op' = "delete_key_record" =>
         LET hits == RowsWithKey(table, args'.unencrypted_key)
         IN IF hits # {}
            THEN /\ ret' = Return(1)
                 /\ \E r \in hits : table' = table \ {r}
            ELSE /\ ret' = Return(0)
                 /\ table' = table]_vars

\* C2: every write that has returned is committed: the database file holds what
\* the connection sees, so closing the connection or opening a second store loses nothing.
C2_WritesCommitted ==
    (op \in WriteOps /\ ret.exc = "") => disk = table

\* C3: add_key with an empty name or an empty/null key fails and inserts nothing,
\* and no stored record has an empty name or no encrypted key.
C3_AddKeyValidates ==
    [][/\ (op' = "add_key" /\ (~Truthy(args'.name) \/ ~Truthy(args'.unencrypted_key)))
            => (ret'.exc # "" /\ table' = table)
       /\ \A r \in table' : Truthy(r.name) /\ r.encrypted_key # Null]_vars

\* the row a successful add_key has just inserted
AddedRow == RowWithId(table, ret.val)

\* C4 (as stated): after add_key(name, secret, ...) with a secret, no stored column value
\* of the new row equals secret verbatim, whatever the field values.
C4_NoColumnEqualsSecret ==
    (Succeeded("add_key") /\ Truthy(args.unencrypted_key)) =>
        \A i \in 1..Len(keystore_columns) :
            Col(AddedRow, keystore_columns[i]) # args.unencrypted_key

\* C4 (amended): encrypted_key never holds a plaintext: after add_key it differs from a
\* non-null secret; id and active differ from it; any other column equals secret only
\* where the caller passed secret as that field's value.
C4_SecretOnlyWhereCallerPutIt ==
    /\ \A r \in table \cup disk : r.encrypted_key.k \in {"null", "token"}
    /\ Succeeded("add_key") =>
         LET secret == args.unencrypted_key
         IN /\ secret # Null => AddedRow.encrypted_key # secret
            /\ Col(AddedRow, "id") # secret
            /\ Col(AddedRow, "active") # secret
            /\ \A c \in {"name", "expiration_in_sse", "batch", "source", "login"} :
                 Col(AddedRow, c) = secret => args[c] = secret

C4_Witness ==
    /\ Succeeded("add_key")
    /\ Truthy(args.unencrypted_key)
    /\ AddedRow.name = args.unencrypted_key
    /\ AddedRow.encrypted_key = Token(args.unencrypted_key.s, MaxNonce)

\* C5: after a successful add_key(name, secret) into a store with no other record of that
\* name, get_key_by_name(name) returns secret; after delete_records_with_name(name),
\* get_matching_key_records(name=name) is empty.
C5_AddLookupByName ==
    [][/\ (op' = "add_key" /\ ret'.exc = "" /\ ~\E r \in table : r.name = args'.name)
            => get_key_by_name_of(table', args'.name, today') = Return(args'.unencrypted_key)
       /\ op' = "delete_records_with_name"
            => get_matching_key_records_of(table', Only("name", args'.name), today') = <<>>]_vars

\* C6: after a successful add_key returning id, get_key_record_by_id(id) has the supplied
\* name, active, expiration, batch, source, login and key; a stored record reads the same
\* until an update or delete; an id of no stored row reads as absent.
C6_AddFetchById ==
    [][/\ (op' = "add_key" /\ ret'.exc = "")
            => LET d == get_key_record_by_id_of(table', ret'.val, today')
               IN /\ d # Null
                  /\ d.name = args'.name
                  /\ Bool(d.active) = args'.active
                  /\ d.expiration_in_sse = args'.expiration_in_sse
                  /\ d.batch = args'.batch
                  /\ d.source = args'.source
                  /\ d.login = args'.login
                  /\ d.key = args'.unencrypted_key
       /\ op' \in {"add_key", "get_key_by_name", "get_key_record_by_id", "get_key_record",
                   "get_matching_key_records", "number_of_records"}
            => \A id \in RowIds(table) :
                 get_key_record_by_id_of(table', id, today')
                     = get_key_record_by_id_of(table, id, today)
       /\ \A id \in Ids \ RowIds(table') :
            get_key_record_by_id_of(table', id, today') = Null
       /\ op' = "get_key_record_by_id"
            => ret' = Return(get_key_record_by_id_of(table, args'.id, today))]_vars

\* C7: get_key_by_name(name) raises exactly when the number of stored records of that
\* name is not one, returns that record's plaintext when it is one, and changes nothing.
C7_GetKeyByNameAmbiguity ==
    [][op' = "get_key_by_name" =>
         LET named == {r \in table : r.name = args'.name}
         IN /\ store' = store
            /\ (ret'.exc = "ValueError") <=> (Cardinality(named) # 1)
            /\ Cardinality(named) = 1
                 => ret' = Return(decrypt_key((CHOOSE r \in named : TRUE).encrypted_key))]_vars

C7_Witness ==
    /\ op = "get_key_by_name"
    /\ ret.exc = "ValueError"
    /\ Cardinality({r \in table : r.name = args.name}) = 2

\* the filter sets with at most MaxFields filters given
Kwargs == {kw \in AllKwargs : Cardinality(set_clause(kw)) <= MaxFields}

\* C8: in every reachable store state and for every filter set, get_matching_key_records
\* returns exactly the stored records that equal every non-null filter (active=False
\* included), each once and as its record dict; with no filter it returns every record,
\* as many as number_of_records counts.
C8_FilterCorrectness ==
    /\ \A kw \in Kwargs :
         LET records == get_matching_key_records_of(table, kw, today)
             expected == {r \in table : Satisfies(r, kw)}
         IN /\ Len(records) = Cardinality(expected)
            /\ {records[i] : i \in 1..Len(records)}
                 = {_get_dict_from_record_tuple(r, today) : r \in expected}
            /\ kw = NoFilters => Len(records) = Cardinality(table)
    /\ op = "get_matching_key_records"
         => ret = Return(get_matching_key_records_of(table, args, today))

C8_Witness ==
    /\ op = "get_matching_key_records"
    /\ args = Only("active", Bool(FALSE))
    /\ Len(ret.val) = 1
    /\ Cardinality(table) = 2

\* C9: delete_matching_key_records with at least one filter removes exactly the stored
\* records that satisfy every non-null filter, returns their number, and leaves every
\* other record as it was.
C9_DeletionIsolation ==
    [][(op' = "delete_matching_key_records" /\ set_clause(args') # {}) =>
         LET doomed == {r \in table : Satisfies(r, args')}
         IN /\ table' = table \ doomed
            /\ ret' = Return(Cardinality(doomed))]_vars

C9_Witness ==
    /\ op = "delete_matching_key_records"
    /\ args = [NoFilters EXCEPT !.name = Text("svc"), !.batch = Text("one")]
    /\ ret = Return(1)
    /\ \E r \in table : r.name = Text("svc") /\ r.batch = Null

\* C10 (as stated): update_key on an id of no stored row fails with an error and changes
\* nothing, whatever fields are supplied, none included.
C10_UpdateMissingIdFails ==
    [][(op' = "update_key" /\ args'.id_to_update \notin RowIds(table)) =>
         /\ ret'.exc # ""
         /\ store' = store]_vars

\* C10 (amended): update_key on an id of no stored row changes nothing; it raises an
\* error when at least one field is supplied and returns normally when none is.
C10_UpdateMissingId ==
    [][(op' = "update_key" /\ args'.id_to_update \notin RowIds(table)) =>
         /\ store' = store
         /\ IF set_clause(args'.fields) # {}
            THEN ret' = Raise("RuntimeError")
            ELSE ret' = Return(Null)]_vars

C10_Witness ==
    /\ op = "update_key"
    /\ ret = Raise("RuntimeError")
    /\ args.id_to_update \notin RowIds(table)
    /\ table # {}

\* update_key(id, kw) took the rows from before to after: the row of that id has every
\* non-null field of kw at the given value, and its id, its encrypted_key, its other
\* fields and every other row are as before; no row is added or removed.
UpdateFrame(before, after, id, kw) ==
    /\ RowIds(after) = RowIds(before)
    /\ Cardinality(after) = Cardinality(before)
    /\ \A r \in before :
         LET r2 == RowWithId(after, r.id)
         IN /\ r2.encrypted_key = r.encrypted_key
            /\ decrypt_key(r2.encrypted_key) = decrypt_key(r.encrypted_key)
            /\ \A f \in FilterFields :
                 IF r.id = id /\ kw[f] # Null
                 THEN FieldEquals(r2, f, kw[f]) /\ (f # "active" => r2[f] = kw[f])
                 ELSE r2[f] = r[f]

\* C11: a successful update_key(id, fields) sets exactly the supplied non-null fields of
\* the row with that id and leaves its id, its encrypted_key, its other fields, every
\* other row and the number of records unchanged: for every id and every field set,
\* applied to the rows of every reachable state.
C11_PartialUpdateFrame ==
    \A id \in Ids, kw \in Kwargs :
        LET u == update_key_of(table, id, kw)
        IN u[2].exc = "" => UpdateFrame(table, u[1], id, kw)

C11_Witness ==
    /\ Succeeded("update_key")
    /\ args.fields = [NoFilters EXCEPT !.expiration_in_sse = AllGiven.expiration_in_sse,
                                       !.batch = AllGiven.batch, !.source = AllGiven.source,
                                       !.login = AllGiven.login]
    /\ Cardinality(table) = 2
    /\ \E r \in table, d \in disk :
         /\ r.id = args.id_to_update /\ d.id = r.id
         /\ d.batch = Null /\ r.batch = AllGiven.batch
         /\ d.encrypted_key = r.encrypted_key
    /\ \E r \in table : r.id # args.id_to_update /\ r.batch = Null

\* the record dicts the last call returned, if it was a read that returns records
ReturnedRecords ==
    IF ret.exc # "" THEN {}
    ELSE CASE op \in {"get_key_record_by_id", "get_key_record"} ->
                  IF ret.val = Null THEN {} ELSE {ret.val}
           [] op \in {"get_matching_key_records", "records_for_usability_report"} ->
                  {ret.val[i] : i \in 1..Len(ret.val)}
           [] OTHER -> {}

\* the record dicts a read at the current time gives for the stored rows
CurrentRecords == {_get_dict_from_record_tuple(r, today) : r \in table}

\* C12 (as stated): every record a read returns at time T has expired true iff its
\* expiration_in_sse is non-null and strictly before T, and usable true iff it is active
\* and not expired.
C12_UsabilityDerivation ==
    \A d \in ReturnedRecords \cup CurrentRecords :
        /\ d.expired <=> (d.expiration_in_sse # Null /\ d.expiration_in_sse.n < today)
        /\ d.usable <=> (d.active /\ ~d.expired)

\* C12 (amended): every record a read returns at time T has expired true iff its
\* expiration_in_sse is neither null nor 0 and strictly before T, and usable true iff it
\* is active and not expired; a record just added active with the default expiration 0
\* is usable.
C12_UsabilityDerivationNonZero ==
    /\ \A d \in ReturnedRecords \cup CurrentRecords :
         /\ d.expired <=> /\ d.expiration_in_sse # Null
                           /\ d.expiration_in_sse.n # 0
                           /\ d.expiration_in_sse.n < today
         /\ d.usable <=> (d.active /\ ~d.expired)
    /\ (/\ Succeeded("add_key")
        /\ args.active = Bool(TRUE)
        /\ args.expiration_in_sse = Defaults.expiration_in_sse)
           => _get_dict_from_record_tuple(AddedRow, today).usable

C12_Witness ==
    /\ Succeeded("get_matching_key_records")
    /\ today = LastTime
    /\ \E d \in ReturnedRecords :
         d.active /\ d.expiration_in_sse = Expiring.expiration_in_sse
                  /\ d.expired /\ ~d.usable
    /\ \E d \in ReturnedRecords :
         d.active /\ d.expiration_in_sse = Defaults.expiration_in_sse
                  /\ ~d.expired /\ d.usable

ReadOps ==
    {"get_key_by_name", "get_key_record_by_id", "get_key_record", "get_matching_key_records",
     "number_of_records", "records_for_usability_report", "usability_counts_report"}
AddAndDeleteOps ==
    {"add_key", "delete_key_record", "delete_records_with_name", "delete_matching_key_records"}

\* C13: time passing and the reads and reports leave every stored record as it is, also
\* once its expiration has passed, and the set of stored records changes only in a step
\* of add_key or of one of the delete operations.
C13_NoImplicitDeletion ==
    [][/\ op' \in ReadOps \cup {"today"} => store' = store
       /\ RowIds(table') # RowIds(table) => op' \in AddAndDeleteOps]_vars

\* the stored rows a report on key_name is about: all of them when no name is given
RowsNamed(rows, key_name) == {r \in rows : key_name = Null \/ r.name = key_name}

\* the (name, source, login, batch) tuples that occur among rows
QualifyingKeys(rows) == {<<r.name, r.source, r.login, r.batch>> : r \in rows}

RowsOfKey(rows, g) == {r \in rows : <<r.name, r.source, r.login, r.batch>> = g}

RECURSIVE SumOf(_, _)
SumOf(entries, field) ==
    IF entries = <<>> THEN 0 ELSE entries[1][field] + SumOf(Tail(entries), field)

ReportNames == {Null, Text("svc"), Text("db")}

\* C14: usability_counts_report(key_name) returns one entry per (name, source, login,
\* batch) tuple among the records of that name (all records when none is given), with
\* usable and unusable the numbers of the tuple's records that are usable and not; the
\* sums over the entries are the number of those records.
C14_UsabilityCounts ==
    \A key_name \in ReportNames :
        LET rows == RowsNamed(table, key_name)
            report == usability_counts_report_of(table, key_name, today)
            entries == report.val
            usable(g) == {r \in RowsOfKey(rows, g) : _get_dict_from_record_tuple(r, today).usable}
        IN /\ report.exc = ""
           /\ Len(entries) = Cardinality(QualifyingKeys(rows))
           /\ \A g \in QualifyingKeys(rows) :
                \E i \in 1..Len(entries) :
                    /\ <<entries[i].name, entries[i].source, entries[i].login, entries[i].batch>>
                          = <<str(g[1]), str(g[2]), str(g[3]), str(g[4])>>
                    /\ entries[i].usable = Cardinality(usable(g))
                    /\ entries[i].unusable = Cardinality(RowsOfKey(rows, g) \ usable(g))
           /\ SumOf(entries, "usable") + SumOf(entries, "unusable") = Cardinality(rows)

SortOrders == {default_sort_order, <<>>, <<"active">>, <<"batch">>, <<"usable", "name">>}

\* C15: records_for_usability_report(key_name, sort_order) returns the records that
\* get_matching_key_records(name=key_name) returns, each once, in ascending order of
\* their sort_order values, records with equal values in fetch order.
C15_ReportRecordsSorted ==
    \A key_name \in ReportNames, sort_order \in SortOrders :
        LET matching == get_matching_key_records_of(table, Only("name", key_name), today)
            report == records_for_usability_report_of(table, key_name, sort_order, today)
            records == report.val
            key(i) == sort_key(records[i], sort_order)
        IN /\ report.exc = ""
           /\ Len(records) = Len(matching)
           /\ {records[i] : i \in 1..Len(records)} = {matching[i] : i \in 1..Len(matching)}
           /\ \A i, j \in 1..Len(records) :
                i < j => \/ TupleLess(key(i), key(j))
                         \/ key(i) = key(j) /\ records[i].id < records[j].id

\* C16: the id a successful add_key returns is the id of no record added earlier in
\* the run, deleted ones included; no two stored records share an id; and a step that
\* is not an add, a delete or the end of a connection leaves the ids of the records.
C16_IdsNeverReused ==
    [][/\ (op' = "add_key" /\ ret'.exc = "") => ret'.val \notin added_ids
       /\ \A r1, r2 \in table' : r1.id = r2.id => r1 = r2
       /\ op' \notin AddAndDeleteOps \cup {"close_connection", "__init__"}
            => RowIds(table') = RowIds(table)]_vars

\* C17: no two stored records hold the same encrypted_key; a successful add_key stores
\* an encrypted_key no record held before, and an add_key that fails on the uniqueness
\* of encrypted_key inserts nothing and leaves the records as they were.
C17_EncryptedKeyUnique ==
    [][/\ \A r1, r2 \in table' : r1.encrypted_key = r2.encrypted_key => r1.id = r2.id
       /\ (op' = "add_key" /\ ret'.exc = "")
            => RowWithId(table', ret'.val).encrypted_key \notin {r.encrypted_key : r \in table}
       /\ (op' = "add_key" /\ ret'.exc # "") => table' = table]_vars

\* the columns of kw that are given (in kw and not None), in the order of keystore_columns
GivenColumns(kw) ==
    SelectSeq(keystore_columns, LAMBDA c : c \in DOMAIN kw /\ kw[c] # Null)

\* the condition a given column stands for
ConditionText(kw, c) ==
    IF c = "active" THEN (IF Truthy(kw.active) THEN "active = 1" ELSE "active = 0")
    ELSE c \o " = ?"

TextsOf(kw, columns) == [i \in 1..Len(columns) |-> ConditionText(kw, columns[i])]

NotActive(c) == c # "active"

IsActive(c) == c = "active"

\* C18 (as stated): the predicate has one condition per given column and none for a None
\* or unknown keyword, in the order of keystore_columns (active between expiration_in_sse
\* and batch); active is a literal, every other condition has a bound parameter, and the
\* values are in the order of their conditions.
C18_ConditionsInColumnOrder ==
    op = "run_query_with_where_clause" =>
        LET kw == args.kwargs
        IN /\ ret.val.conditions = TextsOf(kw, GivenColumns(kw))
           /\ ret.val.values
                = [i \in 1..Len(SelectSeq(GivenColumns(kw), NotActive)) |->
                      kw[SelectSeq(GivenColumns(kw), NotActive)[i]]]

\* C18 (amended): the predicate has one condition per given column and none for a None
\* or unknown keyword; the conditions of the columns other than active come in the order
\* of keystore_columns, each with a bound parameter, and the literal active condition
\* comes last; the values are in the order of the parameter conditions.
C18_ActiveConditionLast ==
    op = "run_query_with_where_clause" =>
        LET kw == args.kwargs
            params == SelectSeq(GivenColumns(kw), NotActive)
        IN /\ ret.val.conditions
                = TextsOf(kw, params) \o TextsOf(kw, SelectSeq(GivenColumns(kw), IsActive))
           /\ ret.val.values = [i \in 1..Len(params) |-> kw[params[i]]]
           /\ ret.val.statement
                = args.query \o (IF Len(ret.val.conditions) = 0 THEN ""
                                 ELSE " WHERE " \o join(ret.val.conditions, " AND "))

C18_Witness ==
    /\ op = "run_query_with_where_clause"
    /\ args.kwargs.owner # Null
    /\ ret.val.statement
         = "DELETE FROM keystore WHERE id = ? AND name = ? AND batch = ? AND active = 0"
    /\ ret.val.values = <<Num(1), Text("svc"), Text("one")>>
    /\ ret.val.rows = {1}

\* C19: mark_key_inactive(p) with a stored record whose decrypted key is p sets active
\* to false on the record get_key_record(p) returns (the first such record), which is
\* then not usable, and leaves its other fields and every other record; with no such
\* record it raises an error and leaves the store unchanged.
C19_MarkInactive ==
    [][op' = "mark_key_inactive" =>
         LET p == args'.unencrypted_key
             hits == RowsWithKey(table, p)
         IN IF hits # {}
            THEN LET found == CHOOSE r \in hits : \A x \in hits : r.id <= x.id
                     marked == [found EXCEPT !.active = 0]
                 IN /\ get_key_record_of(table, p, today).id = found.id
                    /\ ret'.exc = ""
                    /\ table' = (table \ {found}) \cup {marked}
                    /\ ~get_key_record_by_id_of(table', found.id, today').active
                    /\ ~get_key_record_by_id_of(table', found.id, today').usable
            ELSE /\ ret'.exc # ""
                 /\ store' = store]_vars

C19_Witness ==
    /\ Succeeded("mark_key_inactive")
    /\ \E r1, r2 \in RowsWithKey(table, args.unencrypted_key) :
         /\ r1.id < r2.id
         /\ r1.active = 0 /\ r2.active = 1
         /\ \E d \in disk : d.id = r1.id /\ d.active = 1

\* a stored row with no token that decrypts to a plaintext: its encrypted_key is missing
Undecryptable(r) == r.encrypted_key.k # "token"

\* the stored rows the last call scanned, if it was one of the scans that decrypt rows
ScannedRows ==
    CASE op = "get_key_record" -> table
      [] op = "get_matching_key_records" -> run_query_with_where_clause(table, args)
      [] op \in {"records_for_usability_report", "usability_counts_report"} ->
             RowsNamed(table, args.key_name)
      [] OTHER -> {}

\* C20: get_key_record, get_matching_key_records and the two usability reports fail
\* with a decryption error when a row they scan has an encrypted_key that does not
\* decrypt to a plaintext; they never return a result for such a scan.
C20_ScanFailsOnUndecryptableRow ==
    (\E r \in ScannedRows : Undecryptable(r)) => ret.exc = "InvalidToken"

\* C21: delete_matching_key_records called with no filter (every argument None)
\* removes every stored record, returns the number of records the store held
\* before the call, and leaves number_of_records() = 0.
C21_DeleteAllWithoutFilters ==
    [][(op' = "delete_matching_key_records" /\ set_clause(args') = {}) =>
         /\ cx_open
         /\ ret' = Return(Cardinality(table))
         /\ table' = {}
         /\ Return(Cardinality(table')) = Return(0)]_vars

C21_Witness ==
    /\ Succeeded("delete_matching_key_records")
    /\ set_clause(args) = {}
    /\ ret.val = 2
    /\ table = {}
    /\ Cardinality(disk) = 2

\* C22: in every reachable store state records_for_usability_report and
\* usability_counts_report with the default sort order complete without error and
\* return a result, also when the matching records differ in whether source, login,
\* batch or expiration is None; and no such call has raised.
C22_ReportsNeverRaise ==
    /\ cx_open =>
          \A key_name \in ReportNames :
              /\ records_for_usability_report_of(table, key_name, default_sort_order, today).exc = ""
              /\ usability_counts_report_of(table, key_name, today).exc = ""
    /\ op \in {"records_for_usability_report", "usability_counts_report"} => ret.exc = ""
====
